---- MODULE Spec2Model ----
(***************************************************************************)
(* Paw Shuffle (src/main.py): one page view of the Streamlit script.       *)
(* Python strings are sequences of one-character strings, so that the      *)
(* regular expression, str.split / reversed / join, str.lower and          *)
(* str.contains are computed character by character.                       *)
(***************************************************************************)
EXTENDS Integers, Sequences, FiniteSets

\* Number of image-lookup answers up to which the run keeps their history in
\* `responses`. The loop of main has no limit: later lookups still happen, but
\* are only counted as "more than MaxLookups", without their history.
MaxLookups == 2

\* ------------------------------------------------------------------------
\* Python values
\* ------------------------------------------------------------------------
\* None and a str value s.
None == [some |-> FALSE, val |-> <<>>]
Some(s) == [some |-> TRUE, val |-> s]
\* Python truthiness of an optional str: None and "" are falsy.
Truthy(x) == x.some /\ x.val # <<>>

Min(S) == CHOOSE x \in S : \A y \in S : x <= y

\* ------------------------------------------------------------------------
\* Characters
\* ------------------------------------------------------------------------
LowerCase == <<"a", "b", "c", "d", "e", "f", "g", "h", "i", "j", "k", "l", "m", "n", "o", "p", "q", "r", "s", "t", "u", "v", "w", "x", "y", "z">>
UpperCase == <<"A", "B", "C", "D", "E", "F", "G", "H", "I", "J", "K", "L", "M", "N", "O", "P", "Q", "R", "S", "T", "U", "V", "W", "X", "Y", "Z">>
Digits == <<"0", "1", "2", "3", "4", "5", "6", "7", "8", "9">>
Range(seq) == {seq[i] : i \in DOMAIN seq}

\* \w of Python's re on str (letters, digits, underscore).
WordChars == Range(LowerCase) \cup Range(UpperCase) \cup Range(Digits) \cup {"_"}
\* The character class [\w-] of the pattern.
TokenChars == WordChars \cup {"-"}

LowerChar(c) ==
    IF c \in Range(UpperCase)
    THEN LowerCase[CHOOSE i \in DOMAIN UpperCase : UpperCase[i] = c]
    ELSE c
UpperChar(c) ==
    IF c \in Range(LowerCase)
    THEN UpperCase[CHOOSE i \in DOMAIN LowerCase : LowerCase[i] = c]
    ELSE c
\* str.lower() and str.upper()
Lower(s) == [i \in DOMAIN s |-> LowerChar(s[i])]
Upper(s) == [i \in DOMAIN s |-> UpperChar(s[i])]

\* `needle in hay` on Python strings.
In(needle, hay) ==
    \E i \in 1..(Len(hay) - Len(needle) + 1) :
        SubSeq(hay, i, i + Len(needle) - 1) = needle

\* str.split(sep) for a one-character separator: the pieces between the
\* occurrences of sep, empty pieces kept.
Split(s, sep) ==
    LET cuts == {i \in DOMAIN s : s[i] = sep}
        \* the k-th occurrence of sep; 0 and Len(s) + 1 stand for the two ends
        cut(k) == IF k = 0 THEN 0
                  ELSE IF k > Cardinality(cuts) THEN Len(s) + 1
                  ELSE CHOOSE c \in cuts : Cardinality({d \in cuts : d < c}) = k - 1
    IN  [k \in 1..(Cardinality(cuts) + 1) |-> SubSeq(s, cut(k - 1) + 1, cut(k) - 1)]

\* reversed(list)
Reversed(parts) == [i \in DOMAIN parts |-> parts[Len(parts) + 1 - i]]

\* sep.join(parts)
Join(parts, sep) ==
    LET joined[k \in 0..Len(parts)] ==
            IF k = 0 THEN <<>>
            ELSE IF k = 1 THEN parts[1]
            ELSE joined[k - 1] \o sep \o parts[k]
    IN  joined[Len(parts)]

\* ------------------------------------------------------------------------
\* extract_breed_name
\* ------------------------------------------------------------------------
\* The literal part of the pattern, up to the capture group:
\* https:\/\/images\.dog\.ceo\/breeds\/
PatternPrefix == <<"h", "t", "t", "p", "s", ":", "/", "/", "i", "m", "a", "g", "e", "s", ".", "d", "o", "g", ".", "c", "e", "o", "/", "b", "r", "e", "e", "d", "s", "/">>

\* Last index of the greedy run [\w-]* that starts at index j (j - 1 when the
\* run is empty).
RunEnd(s, j) ==
    LET ends == {e \in (j - 1)..Len(s) : \A k \in j..e : s[k] \in TokenChars}
    IN  CHOOSE e \in ends : \A x \in ends : x <= e

\* The pattern without its closing "/".
MatchAt_NoClosingSlash(s, i) ==
    LET j == i + Len(PatternPrefix)
    IN  /\ j - 1 <= Len(s)
        /\ SubSeq(s, i, j - 1) = PatternPrefix
        /\ RunEnd(s, j) >= j

\* The pattern matches at index i: the literal prefix, then ([\w-]+), then "/".
\* The class excludes "/", so only the maximal run can be followed by "/".
MatchAt(s, i) ==
    LET j == i + Len(PatternPrefix)
        e == RunEnd(s, j)
    IN  /\ j - 1 <= Len(s)
        /\ SubSeq(s, i, j - 1) = PatternPrefix
        /\ e >= j
        /\ e < Len(s)
        /\ s[e + 1] = "/"

\* re.search(pattern, url): group(1) of the leftmost match, or None.
re_search(url) ==
    LET starts == {i \in DOMAIN url : MatchAt(url, i)}
    IN  IF starts = {} THEN None
        ELSE LET j == Min(starts) + Len(PatternPrefix)
             IN  Some(SubSeq(url, j, RunEnd(url, j)))

\* The components joined in their original order.
reverse_components_NotReversed(breed_name) ==
    IF "-" \in Range(breed_name)
    THEN Join(Split(breed_name, "-"), <<" ">>)
    ELSE breed_name

\* Lines 41-44: the captured name, with its "-"-separated components reversed
\* and joined by " " when it holds a "-".
reverse_components(breed_name) ==
    IF "-" \in Range(breed_name)
    THEN Join(Reversed(Split(breed_name, "-")), <<" ">>)
    ELSE breed_name

\* extract_breed_name(url) for a str url (a None url raises TypeError in
\* re.search; that is the action ExtractBreedName).
extract_breed_name(url) ==
    LET match == re_search(url)
    IN  IF match.some THEN Some(reverse_components(match.val)) ELSE None

\* ------------------------------------------------------------------------
\* read_and_process_csv and search_breed_in_dataframe
\* ------------------------------------------------------------------------
\* The data frame: the rows of the CSV in file order, each with its "breed"
\* and the derived "breed_lower".
read_and_process_csv(csv) ==
    [i \in DOMAIN csv |-> [breed |-> csv[i], breed_lower |-> Lower(csv[i])]]

\* "No row": the None that search_breed_in_dataframe returns.
NoRow == 0

\* str.contains with case=True.
str_contains_CaseSensitive(x, pat) == In(pat, x)

\* Series.str.contains(pat, case=False, regex=False): pat.upper() in x.upper()
str_contains(x, pat) == In(Upper(pat), Upper(x))

\* The lookup without its exact pass.
search_ContainsOnly(frame, breed_name) ==
    LET contains_match ==
            {i \in DOMAIN frame : str_contains(frame[i].breed_lower, breed_name)}
    IN  IF contains_match # {} THEN Min(contains_match) ELSE NoRow

\* Rows are identified by their position in the frame (1-based).
search_breed_in_dataframe(frame, breed_name) ==
    LET exact_match == {i \in DOMAIN frame : frame[i].breed_lower = breed_name}
        contains_match ==
            {i \in DOMAIN frame : str_contains(frame[i].breed_lower, breed_name)}
    IN  IF exact_match # {} THEN Min(exact_match)
        ELSE IF contains_match # {} THEN Min(contains_match)
        ELSE NoRow

\* ------------------------------------------------------------------------
\* Inputs: the CSV file and what the two HTTP collaborators may answer
\* ------------------------------------------------------------------------
\* "breed" columns of akc-data-latest.csv, in file order.
Datasets ==
    { << <<"p", "o", "o", "d", "l", "e">>, <<"t", "o", "y", " ", "p", "o", "o", "d", "l", "e">> >>,
      << <<"t", "o", "y", " ", "p", "o", "o", "d", "l", "e">>, <<"p", "o", "o", "d", "l", "e">> >>,
      << <<"T", "o", "y", " ", "P", "u", "g">>, <<"P", "u", "g">> >>,
      << <<"C", "o", "c", "k", "e", "r", " ", "S", "p", "a", "n", "i", "e", "l">>, <<"Y", "o", "r", "k", "s", "h", "i", "r", "e", " ", "T", "e", "r", "r", "i", "e", "r">>, <<"P", "u", "g">> >> }

\* The "message" field of the image-lookup answer.
Urls ==
    { <<"h", "t", "t", "p", "s", ":", "/", "/", "i", "m", "a", "g", "e", "s", ".", "d", "o", "g", ".", "c", "e", "o", "/", "b", "r", "e", "e", "d", "s", "/", "p", "u", "g", "/", "1", ".", "j", "p", "g">>,
      <<"h", "t", "t", "p", "s", ":", "/", "/", "i", "m", "a", "g", "e", "s", ".", "d", "o", "g", ".", "c", "e", "o", "/", "b", "r", "e", "e", "d", "s", "/", "P", "u", "g", "/", "1", ".", "j", "p", "g">>,
      <<"h", "t", "t", "p", "s", ":", "/", "/", "i", "m", "a", "g", "e", "s", ".", "d", "o", "g", ".", "c", "e", "o", "/", "b", "r", "e", "e", "d", "s", "/", "p", "o", "o", "d", "l", "e", "/", "1", ".", "j", "p", "g">>,
      <<"h", "t", "t", "p", "s", ":", "/", "/", "i", "m", "a", "g", "e", "s", ".", "d", "o", "g", ".", "c", "e", "o", "/", "b", "r", "e", "e", "d", "s", "/", "y", "o", "r", "k", "s", "h", "i", "r", "e", "/", "1", ".", "j", "p", "g">>,
      <<"h", "t", "t", "p", "s", ":", "/", "/", "i", "m", "a", "g", "e", "s", ".", "d", "o", "g", ".", "c", "e", "o", "/", "b", "r", "e", "e", "d", "s", "/", "x", "y", "z", "1", "2", "3", "/", "1", ".", "j", "p", "g">>,
      <<"h", "t", "t", "p", "s", ":", "/", "/", "i", "m", "a", "g", "e", "s", ".", "d", "o", "g", ".", "c", "e", "o", "/", "b", "r", "e", "e", "d", "s", "/", "t", "e", "r", "r", "i", "e", "r", "-", "y", "o", "r", "k", "s", "h", "i", "r", "e", "/", "n", "1", ".", "j", "p", "g">>,
      <<"h", "t", "t", "p", "s", ":", "/", "/", "i", "m", "a", "g", "e", "s", ".", "d", "o", "g", ".", "c", "e", "o", "/", "b", "r", "e", "e", "d", "s", "/", "s", "p", "a", "n", "i", "e", "l", "-", "c", "o", "c", "k", "e", "r", "/", "1", ".", "j", "p", "g">>,
      <<"h", "t", "t", "p", "s", ":", "/", "/", "i", "m", "a", "g", "e", "s", ".", "d", "o", "g", ".", "c", "e", "o", "/", "b", "r", "e", "e", "d", "s", "/", "a", "-", "b", "-", "c", "/", "1", ".", "j", "p", "g">>,
      <<"h", "t", "t", "p", "s", ":", "/", "/", "i", "m", "a", "g", "e", "s", ".", "d", "o", "g", ".", "c", "e", "o", "/", "b", "r", "e", "e", "d", "s", "/", "p", "u", "g", "-", "/", "1", ".", "j", "p", "g">>,
      <<"h", "t", "t", "p", "s", ":", "/", "/", "i", "m", "a", "g", "e", "s", ".", "d", "o", "g", ".", "c", "e", "o", "/", "b", "r", "e", "e", "d", "s", "/", "p", "u", "g">>,
      <<"h", "t", "t", "p", "s", ":", "/", "/", "i", "m", "a", "g", "e", "s", ".", "d", "o", "g", ".", "c", "e", "o", "/", "b", "r", "e", "e", "d", "/", "p", "u", "g", "/", "1", ".", "j", "p", "g">>,
      <<"u", "=", "h", "t", "t", "p", "s", ":", "/", "/", "i", "m", "a", "g", "e", "s", ".", "d", "o", "g", ".", "c", "e", "o", "/", "b", "r", "e", "e", "d", "s", "/", "p", "u", "g", "/", "1", ".", "j", "p", "g">>,
      <<"h", "t", "t", "p", "s", ":", "/", "/", "i", "m", "a", "g", "e", "s", ".", "x", ".", "c", "o", "m", "/", "b", "r", "e", "e", "d", "s", "/", "p", "u", "g", "/", "1", ".", "j", "p", "g">>,
      <<"h", "t", "t", "p", "s", ":", "/", "/", "i", "m", "a", "g", "e", "s", ".", "e", "x", "a", "m", "p", "l", "e", ".", "c", "o", "m", "/", "b", "r", "e", "e", "d", "s", "/", "t", "e", "r", "r", "i", "e", "r", "-", "y", "o", "r", "k", "s", "h", "i", "r", "e", "/", "n", "1", ".", "j", "p", "g">>,
      <<>> }

\* The success status tested at lines 28 and 142.
OK == 200
Statuses == {OK, 404}

\* The "message" field of an answer that is not a success: an error text, or
\* (a cache or proxy in front of the API) a stale image URL.
ErrorMessages ==
    { <<"N", "o", " ", "r", "o", "u", "t", "e", " ", "f", "o", "u", "n", "d">>,
      <<"h", "t", "t", "p", "s", ":", "/", "/", "i", "m", "a", "g", "e", "s", ".", "d", "o", "g", ".", "c", "e", "o", "/", "b", "r", "e", "e", "d", "s", "/", "p", "u", "g", "/", "1", ".", "j", "p", "g">> }

\* An answer of https://dog.ceo/api/breeds/image/random
Responses ==
    [status : {OK}, message : Urls]
        \cup [status : Statuses \ {OK}, message : ErrorMessages]

\* An answer of the GET of the image: `valid` says whether PIL can open the
\* content of a 200 answer.
ImageResponses ==
    [status : {OK}, valid : BOOLEAN]
        \cup [status : Statuses \ {OK}, valid : {FALSE}]
NoImageResponse == [status |-> 0, valid |-> FALSE]

\* The message whatever the status.
request_dog_api_data_AnyStatus(response) == Some(response.message)

\* request_dog_api_data: the message of a 200 answer, None otherwise.
request_dog_api_data(response) ==
    IF response.status = OK THEN Some(response.message) ELSE None

\* ------------------------------------------------------------------------
\* State of one run of the script
\* ------------------------------------------------------------------------
VARIABLES
    df,              \* the module-level data frame (line 172)
    pc,              \* position in main
    image_url,       \* main's image_url
    breed_name,      \* main's breed_name
    df_result,       \* main's df_result: a row of df, or NoRow
    responses,       \* the image-lookup answers so far (<<>> past MaxLookups)
    calls,           \* image-lookup requests made (MaxLookups + 1: more)
    image_requests,  \* URLs of the image requests made (line 140)
    image_response,  \* the answer to the image request
    page,            \* what Streamlit has been told to show, in order
    exception        \* the uncaught exception that ended the run, or "none"

vars ==
    <<df, pc, image_url, breed_name, df_result, responses, calls,
      image_requests, image_response, page, exception>>

\* An element of the page: st.subheader / st.image / st.error / the fact
\* lines / the chart, with the row it shows and the status code it echoes.
Element(kind, row, code) == [kind |-> kind, row |-> row, code |-> code]

Init ==
    /\ df \in {read_and_process_csv(csv) : csv \in Datasets}
    /\ pc = "request"
    /\ image_url = None
    /\ breed_name = None
    /\ df_result = NoRow
    /\ responses = <<>>
    /\ calls = 0
    /\ image_requests = <<>>
    /\ image_response = NoImageResponse
    /\ page = <<>>
    /\ exception = "none"

\* Line 125: image_url = request_dog_api_data()
Request(response) ==
    /\ pc = "request"
    /\ image_url' = request_dog_api_data(response)
    /\ responses' = IF calls < MaxLookups
                    THEN Append(responses, response)
                    ELSE <<>>
    /\ calls' = IF calls <= MaxLookups THEN calls + 1 ELSE calls
    /\ pc' = "extract"
    /\ UNCHANGED <<df, breed_name, df_result, image_requests, image_response,
                   page, exception>>

RequestDogApiData == \E response \in Responses : Request(response)

\* Line 126: breed_name = extract_breed_name(image_url), and the test of
\* line 128. re.search raises TypeError on None; nothing catches it, so the
\* run ends and Streamlit shows the exception.
ExtractBreedName ==
    /\ pc = "extract"
    /\ IF image_url.some
       THEN LET name == extract_breed_name(image_url.val)
            IN  /\ breed_name' = name
                /\ pc' = IF Truthy(name) THEN "search" ELSE "request"
                /\ UNCHANGED <<page, exception>>
       ELSE /\ pc' = "crashed"
            /\ exception' = "TypeError"
            /\ page' = Append(page, Element("exception", NoRow, 0))
            /\ UNCHANGED breed_name
    /\ UNCHANGED <<df, image_url, df_result, responses, calls, image_requests,
                   image_response>>

\* The loop left as soon as a token is extracted, found or not.
SearchBreed_AlwaysBreak ==
    /\ pc = "search"
    /\ df_result' = search_breed_in_dataframe(df, breed_name.val)
    /\ pc' = "resolved"
    /\ UNCHANGED <<df, image_url, breed_name, responses, calls, image_requests,
                   image_response, page, exception>>

\* Lines 129-133: the lookup; break when a row is found, else next iteration.
SearchBreed ==
    /\ pc = "search"
    /\ LET row == search_breed_in_dataframe(df, breed_name.val)
       IN  /\ df_result' = row
           /\ pc' = IF row # NoRow THEN "resolved" ELSE "request"
    /\ UNCHANGED <<df, image_url, breed_name, responses, calls, image_requests,
                   image_response, page, exception>>

\* Lines 135-138: after the loop, the breed name as sub-header.
ShowBreed ==
    /\ pc = "resolved"
    /\ page' = Append(page, Element("subheader", df_result, 0))
    /\ pc' = "image"
    /\ UNCHANGED <<df, image_url, breed_name, df_result, responses, calls,
                   image_requests, image_response, exception>>

\* An image request that failed sent back to the lookup loop.
FetchImage_RetryOnError ==
    /\ pc = "image"
    /\ \E response \in ImageResponses :
         /\ image_requests' = Append(image_requests, image_url.val)
         /\ image_response' = response
         /\ IF response.status = OK
            THEN /\ page' = Append(page, Element("image", df_result, 0))
                 /\ pc' = "facts"
            ELSE /\ page' = Append(page, Element("error", NoRow, response.status))
                 /\ pc' = "request"
    /\ UNCHANGED <<df, image_url, breed_name, df_result, responses, calls,
                   exception>>

\* Lines 139-148: one GET of the image; the image on 200 (Image.open raises
\* on content it cannot identify), st.error with the status code otherwise;
\* "Failed to fetch data" when image_url is falsy.
FetchImage ==
    /\ pc = "image"
    /\ IF Truthy(image_url)
       THEN \E response \in ImageResponses :
              /\ image_requests' = Append(image_requests, image_url.val)
              /\ image_response' = response
              /\ IF response.status = OK
                 THEN IF response.valid
                      THEN /\ page' = Append(page, Element("image", df_result, 0))
                           /\ pc' = "facts"
                           /\ UNCHANGED exception
                      ELSE /\ page' = Append(page, Element("exception", NoRow, 0))
                           /\ pc' = "crashed"
                           /\ exception' = "UnidentifiedImageError"
                 ELSE /\ page' = Append(page, Element("error", NoRow, response.status))
                      /\ pc' = "facts"
                      /\ UNCHANGED exception
       ELSE /\ page' = Append(page, Element("failed", NoRow, 0))
            /\ pc' = "facts"
            /\ UNCHANGED <<image_requests, image_response, exception>>
    /\ UNCHANGED <<df, image_url, breed_name, df_result, responses, calls>>

\* Lines 150-162: the description and the fact lines of the row.
ShowFacts ==
    /\ pc = "facts"
    /\ page' = Append(page, Element("facts", df_result, 0))
    /\ pc' = "charts"
    /\ UNCHANGED <<df, image_url, breed_name, df_result, responses, calls,
                   image_requests, image_response, exception>>

\* Lines 166-168: display_charts(df_result), the four panels annotated with
\* the row.
DisplayCharts ==
    /\ pc = "charts"
    /\ page' = Append(page, Element("charts", df_result, 0))
    /\ pc' = "done"
    /\ UNCHANGED <<df, image_url, breed_name, df_result, responses, calls,
                   image_requests, image_response, exception>>

Next ==
    \/ RequestDogApiData
    \/ ExtractBreedName
    \/ SearchBreed
    \/ ShowBreed
    \/ FetchImage
    \/ ShowFacts
    \/ DisplayCharts

Spec == Init /\ [][Next]_vars

\* ------------------------------------------------------------------------
\* Vocabulary of the properties
\* ------------------------------------------------------------------------
\* The while loop of main has been left (by its break).
Returned ==
    \/ pc \in {"resolved", "image", "facts", "charts", "done"}
    \/ pc = "crashed" /\ exception = "UnidentifiedImageError"

\* The run is inside the while loop of main.
Looping == pc \in {"request", "extract", "search"}

\* breed_name is the result of extract_breed_name on the str image_url.
ExtractionDone == pc # "extract" /\ image_url.some

\* df_result is the result of search_breed_in_dataframe on breed_name.
SearchDone == pc # "search" /\ Truthy(breed_name)

\* The tokens t for which `url` contains prefix, t, "/" in a row, t a
\* non-empty string of [\w-] characters, the prefix starting at index i.
TokensAt(url, i, prefix) ==
    LET j == i + Len(prefix)
    IN  IF j - 1 <= Len(url) /\ SubSeq(url, i, j - 1) = prefix
        THEN {SubSeq(url, j, e) : e \in
                 {e \in j..(Len(url) - 1) :
                     /\ \A k \in j..e : url[k] \in TokenChars
                     /\ url[e + 1] = "/"}}
        ELSE {}

\* Tokens of a URL that contains https://images.dog.ceo/breeds/<token>/
DogCeoTokens(url) ==
    UNION {TokensAt(url, i, <<"h", "t", "t", "p", "s", ":", "/", "/", "i", "m", "a", "g", "e", "s", ".", "d", "o", "g", ".", "c", "e", "o", "/", "b", "r", "e", "e", "d", "s", "/">>) : i \in DOMAIN url}

\* Tokens of a URL of the form https://images.<host>/breeds/<token>/<file>,
\* for any non-empty host without "/".
AnyHostTokens(url) ==
    LET scheme == <<"h", "t", "t", "p", "s", ":", "/", "/", "i", "m", "a", "g", "e", "s", ".">>
        n == Len(scheme)
    IN  IF Len(url) > n /\ SubSeq(url, 1, n) = scheme
        THEN UNION {TokensAt(url, h + 1, <<"/", "b", "r", "e", "e", "d", "s", "/">>) :
                      h \in {h \in (n + 1)..Len(url) :
                                \A k \in (n + 1)..h : url[k] # "/"}}
        ELSE {}

\* The URL has a /breeds/<x>/ segment, <x> non-empty and without "/".
HasBreedsSegment(url) ==
    \E i \in DOMAIN url : \E e \in DOMAIN url :
        /\ i + 8 <= e
        /\ e + 1 <= Len(url)
        /\ SubSeq(url, i, i + 7) = <<"/", "b", "r", "e", "e", "d", "s", "/">>
        /\ \A k \in (i + 8)..e : url[k] # "/"
        /\ url[e + 1] = "/"

HasElement(kind, row, code) ==
    \E i \in DOMAIN page : page[i] = Element(kind, row, code)

\* ------------------------------------------------------------------------
\* Properties
\* ------------------------------------------------------------------------

\* C1: an image-lookup answer that is not a success (image_url is None when
\* extraction starts) never ends the run: the step that handles it goes back
\* to requesting a new image reference.
C1_NonSuccessRetried ==
    [][(pc = "extract" /\ ~image_url.some) => pc' = "request"]_vars

\* C2: once the loop of main has been left, image_url is a str, breed_name a
\* non-empty str and df_result a row of the data frame; and the page never
\* holds the "Failed to fetch data" error.
C2_ResultNonNull ==
    /\ Returned =>
         /\ image_url.some
         /\ Truthy(breed_name)
         /\ df_result \in DOMAIN df
    /\ \A i \in DOMAIN page : page[i].kind # "failed"

C2_Witness ==
    /\ pc = "done"
    /\ HasElement("image", df_result, 0)
    /\ df[df_result].breed = <<"P", "u", "g">>

\* The resolver returns on the first answer that resolves, where an answer
\* resolves when it is a success and a token of its URL (by Tokens), with
\* its components reversed, is found in the data frame: every answer
\* discarded so far does not resolve, and on return the last answer is the
\* first that resolves, image_url is its URL, breed_name its token and
\* df_result the row found for it. (Stated for the recorded answers.)
ReturnsOnFirst(Tokens(_)) ==
    LET n == Len(responses)
        Names(r) == {reverse_components(t) : t \in Tokens(r.message)}
        Resolves(r) ==
            /\ r.status = OK
            /\ \E name \in Names(r) : search_breed_in_dataframe(df, name) # NoRow
    IN  calls <= MaxLookups =>
          /\ pc = "request" => \A k \in 1..n : ~Resolves(responses[k])
          /\ Returned =>
               /\ n = calls
               /\ n >= 1
               /\ Resolves(responses[n])
               /\ \A k \in 1..(n - 1) : ~Resolves(responses[k])
               /\ image_url = Some(responses[n].message)
               /\ breed_name.val \in Names(responses[n])
               /\ df_result = search_breed_in_dataframe(df, breed_name.val)
               /\ df_result \in DOMAIN df

C4_AnyHostExtraction ==
    ExtractionDone => (breed_name.some <=> HasBreedsSegment(image_url.val))

\* C4, amended: extraction gives a token exactly when the URL contains
\* https://images.dog.ceo/breeds/<token>/ (the host is fixed, the token is
\* made of [\w-] characters); .../breeds/terrier-yorkshire/n1.jpg on that
\* host gives "yorkshire terrier" and .../breeds/pug/1.jpg gives "pug".
C4_DogCeoExtraction ==
    ExtractionDone =>
      /\ breed_name.some <=> DogCeoTokens(image_url.val) # {}
      /\ image_url.val = <<"h", "t", "t", "p", "s", ":", "/", "/", "i", "m", "a", "g", "e", "s", ".", "d", "o", "g", ".", "c", "e", "o", "/", "b", "r", "e", "e", "d", "s", "/", "t", "e", "r", "r", "i", "e", "r", "-", "y", "o", "r", "k", "s", "h", "i", "r", "e", "/", "n", "1", ".", "j", "p", "g">>
           => breed_name = Some(<<"y", "o", "r", "k", "s", "h", "i", "r", "e", " ", "t", "e", "r", "r", "i", "e", "r">>)
      /\ image_url.val = <<"h", "t", "t", "p", "s", ":", "/", "/", "i", "m", "a", "g", "e", "s", ".", "d", "o", "g", ".", "c", "e", "o", "/", "b", "r", "e", "e", "d", "s", "/", "p", "u", "g", "/", "1", ".", "j", "p", "g">>
           => breed_name = Some(<<"p", "u", "g">>)

C4_Witness ==
    /\ pc = "search"
    /\ image_url.val = <<"h", "t", "t", "p", "s", ":", "/", "/", "i", "m", "a", "g", "e", "s", ".", "d", "o", "g", ".", "c", "e", "o", "/", "b", "r", "e", "e", "d", "s", "/", "t", "e", "r", "r", "i", "e", "r", "-", "y", "o", "r", "k", "s", "h", "i", "r", "e", "/", "n", "1", ".", "j", "p", "g">>
    /\ breed_name = Some(<<"y", "o", "r", "k", "s", "h", "i", "r", "e", " ", "t", "e", "r", "r", "i", "e", "r">>)

\* C5: when some row's normalized name equals the token, the lookup returns
\* the first such row, even when a row that only contains the token comes
\* earlier.
C5_ExactMatchFirst ==
    SearchDone =>
      LET exact == {i \in DOMAIN df : Lower(df[i].breed) = breed_name.val}
      IN  exact # {} => df_result = Min(exact)

C5_Witness ==
    /\ SearchDone
    /\ breed_name.val = <<"p", "o", "o", "d", "l", "e">>
    /\ df[1].breed = <<"t", "o", "y", " ", "p", "o", "o", "d", "l", "e">>
    /\ df_result = 2

\* C6: when some row's name equals the token up to letter case, the lookup
\* returns the first such row.
C6_CaseInsensitiveExact ==
    SearchDone =>
      LET exact == {i \in DOMAIN df : Lower(df[i].breed) = Lower(breed_name.val)}
      IN  exact # {} => df_result = Min(exact)

\* C7: when no row's normalized name equals the token, the lookup returns the
\* first row in file order whose name contains the token, letter case
\* ignored; and it returns no row exactly when no row's name contains it.
C7_SubstringFallback ==
    SearchDone =>
      LET exact == {i \in DOMAIN df : Lower(df[i].breed) = breed_name.val}
          contains ==
              {i \in DOMAIN df : In(Lower(breed_name.val), Lower(df[i].breed))}
      IN  /\ exact = {} =>
                df_result = IF contains = {} THEN NoRow ELSE Min(contains)
          /\ df_result = NoRow <=> contains = {}

C7_Witness ==
    /\ SearchDone
    /\ breed_name.val = <<"y", "o", "r", "k", "s", "h", "i", "r", "e">>
    /\ df_result # NoRow
    /\ df[df_result].breed = <<"Y", "o", "r", "k", "s", "h", "i", "r", "e", " ", "T", "e", "r", "r", "i", "e", "r">>

\* C8: after the loop exactly one image request is made, for image_url; when
\* its status is not 200 an error with that status is shown and the run goes
\* on to the fact lines and the chart of the resolved row; no lookup and no
\* other image request follows the return of the resolver.
C8_ImageFailureReported ==
    /\ [](pc \in {"facts", "charts", "done"} =>
            /\ image_requests = <<image_url.val>>
            /\ image_response.status # OK =>
                 HasElement("error", NoRow, image_response.status))
    /\ [](pc = "done" =>
            /\ HasElement("facts", df_result, 0)
            /\ HasElement("charts", df_result, 0))
    /\ [][Returned =>
            /\ calls' = calls
            /\ responses' = responses
            /\ pc # "image" => image_requests' = image_requests
            /\ (pc = "image" /\ image_response'.status # OK) => pc' = "facts"
            /\ pc = "facts" => pc' = "charts"
            /\ pc = "charts" => pc' = "done"]_vars

C8_Witness ==
    /\ pc = "done"
    /\ image_response.status = 404
    /\ HasElement("error", NoRow, 404)
    /\ HasElement("charts", df_result, 0)

\* C9: the returned token is never empty; it is the captured token when that
\* has no hyphen, and otherwise its hyphen-separated components in reversed
\* order, joined by single spaces.
C9_HyphenReversal ==
    (ExtractionDone /\ breed_name.some) =>
      /\ breed_name.val # <<>>
      /\ \E captured \in DogCeoTokens(image_url.val) :
           /\ Len(breed_name.val) = Len(captured)
           /\ IF "-" \in Range(captured)
              THEN Split(breed_name.val, " ") = Reversed(Split(captured, "-"))
              ELSE breed_name.val = captured
      /\ image_url.val = <<"h", "t", "t", "p", "s", ":", "/", "/", "i", "m", "a", "g", "e", "s", ".", "d", "o", "g", ".", "c", "e", "o", "/", "b", "r", "e", "e", "d", "s", "/", "s", "p", "a", "n", "i", "e", "l", "-", "c", "o", "c", "k", "e", "r", "/", "1", ".", "j", "p", "g">>
           => breed_name.val = <<"c", "o", "c", "k", "e", "r", " ", "s", "p", "a", "n", "i", "e", "l">>
      /\ image_url.val = <<"h", "t", "t", "p", "s", ":", "/", "/", "i", "m", "a", "g", "e", "s", ".", "d", "o", "g", ".", "c", "e", "o", "/", "b", "r", "e", "e", "d", "s", "/", "a", "-", "b", "-", "c", "/", "1", ".", "j", "p", "g">>
           => breed_name.val = <<"c", " ", "b", " ", "a">>

C9_Witness ==
    /\ ExtractionDone
    /\ image_url.val = <<"h", "t", "t", "p", "s", ":", "/", "/", "i", "m", "a", "g", "e", "s", ".", "d", "o", "g", ".", "c", "e", "o", "/", "b", "r", "e", "e", "d", "s", "/", "a", "-", "b", "-", "c", "/", "1", ".", "j", "p", "g">>
    /\ breed_name = Some(<<"c", " ", "b", " ", "a">>)

\* C10: a lookup miss (collaborator failure, no token, token not in the data
\* frame) never stops the resolver and shows nothing: until the resolver has
\* returned, the loop is still running (so that the run goes on to the next
\* lookup), and the page is empty.
C10_RetriedUntilResolved ==
    /\ Returned \/ Looping
    /\ ~Returned => page = <<>>

====
